---------------------------- MODULE Spec2Model ----------------------------
(***************************************************************************)
(* A model of SmileFetcher.py: the name normalizers, the PubChem lookup    *)
(* with its compound -> substance fallback, and main's read / resolve /    *)
(* persist / format pipeline.                                              *)
(*                                                                         *)
(* Python values are tagged records, so that values of different Python    *)
(* types can be told apart:                                                *)
(*   [kind |-> "nan"]            float NaN (pandas' empty cell)            *)
(*   [kind |-> "none"]           None (openpyxl's empty cell)              *)
(*   [kind |-> "str", s |-> cs]  a str, cs its sequence of characters      *)
(*   [kind |-> "int", n |-> k]   an int                                    *)
(* A character is a one-token string; the four Greek letters are written   *)
(* "<alpha>", "<beta>", "<gamma>", "<delta>".                              *)
(***************************************************************************)
EXTENDS Integers, Sequences, FiniteSets, TLC

VARIABLES
    pc,             \* main's position
    input_file,     \* the path typed at the prompt (line 111)
    readable,       \* whether pd.read_excel(input_file) succeeds
    sheet,          \* the first column of the input file
    compound_names, \* line 115
    results,        \* line 120
    compound_name,  \* get_pubchem_info's argument in the running frame
    is_substance,   \* get_pubchem_info's flag in the running frame
    reqs,           \* the requests of the running (or just returned) lookup
    result_df,      \* line 126
    output_file,    \* line 128
    disk,           \* the file at the output path
    wb,             \* apply_formatting's workbook
    log,            \* the steps taken so far, in order
    arg,            \* the name a normalizer is applied to
    out             \* the normalizers' results for arg

vars == <<pc, input_file, readable, sheet, compound_names, results,
          compound_name, is_substance, reqs, result_df, output_file, disk,
          wb, log, arg, out>>

mainvars == <<pc, input_file, readable, sheet, compound_names, results,
              compound_name, is_substance, reqs, result_df, output_file,
              disk, wb, log>>

---------------------------------------------------------------------------
(* Bounds *)

\* longest name the normalizers are applied to
MaxNameLen == 3
\* most data rows of the input sheet
MaxRows == 2

---------------------------------------------------------------------------
(* Python values *)

NaN == [kind |-> "nan"]
None == [kind |-> "none"]
Str(cs) == [kind |-> "str", s |-> cs]
PyInt(k) == [kind |-> "int", n |-> k]

ALPHA == "<alpha>"
BETA == "<beta>"
GAMMA == "<gamma>"
DELTA == "<delta>"
Greek == {ALPHA, BETA, GAMMA, DELTA}

\* pd.isna on a scalar
IsNa(v) == v.kind \in {"nan", "none"}

\* str(v) of a str or of a one-digit int
PyStr(v) == IF v.kind = "str" THEN v.s ELSE <<ToString(v.n)>>

\* bool(v): None, "" and 0 are false; float NaN is true
Truthy(v) ==
    CASE v.kind = "none" -> FALSE
      [] v.kind = "nan" -> TRUE
      [] v.kind = "str" -> v.s # <<>>
      [] v.kind = "int" -> v.n # 0

\* str.replace(key, value) for a one-character key: every occurrence
RECURSIVE StrReplace(_, _, _)
StrReplace(cs, key, value) ==
    IF cs = <<>> THEN <<>>
    ELSE (IF Head(cs) = key THEN value ELSE <<Head(cs)>>)
         \o StrReplace(Tail(cs), key, value)

\* for key, value in replacements.items(): name = name.replace(key, value)
RECURSIVE ApplyReplacements(_, _)
ApplyReplacements(cs, reps) ==
    IF reps = <<>> THEN cs
    ELSE ApplyReplacements(StrReplace(cs, Head(reps)[1], Head(reps)[2]),
                           Tail(reps))

GreekReplacements ==
    << <<ALPHA, <<"a", "l", "p", "h", "a">> >>,
       <<BETA, <<"b", "e", "t", "a">> >>,
       <<GAMMA, <<"g", "a", "m", "m", "a">> >>,
       <<DELTA, <<"d", "e", "l", "t", "a">> >> >>

HyperlinkReplacements ==
    << <<",", <<"%", "2", "c">> >>,
       <<" ", <<"%", "2", "0">> >> >> \o GreekReplacements

\* str.replace(key, value, 1): the first occurrence only
RECURSIVE StrReplaceFirst(_, _, _)
StrReplaceFirst(cs, key, value) ==
    IF cs = <<>> THEN <<>>
    ELSE IF Head(cs) = key THEN value \o Tail(cs)
    ELSE <<Head(cs)>> \o StrReplaceFirst(Tail(cs), key, value)

RECURSIVE ApplyReplacementsFirst(_, _)
ApplyReplacementsFirst(cs, reps) ==
    IF reps = <<>> THEN cs
    ELSE ApplyReplacementsFirst(
             StrReplaceFirst(cs, Head(reps)[1], Head(reps)[2]), Tail(reps))

replace_special_characters_first(name) ==
    IF IsNa(name) THEN Str(<<>>)
    ELSE Str(ApplyReplacementsFirst(PyStr(name), GreekReplacements))

replace_special_characters(name) ==
    IF IsNa(name) THEN Str(<<>>)
    ELSE Str(ApplyReplacements(PyStr(name), GreekReplacements))

replace_special_characters_for_hyperlink_nospace(name) ==
    IF IsNa(name) THEN Str(<<>>)
    ELSE Str(ApplyReplacements(PyStr(name),
                               <<HyperlinkReplacements[1]>> \o GreekReplacements))

replace_special_characters_for_hyperlink(name) ==
    IF IsNa(name) THEN Str(<<>>)
    ELSE Str(ApplyReplacements(PyStr(name), HyperlinkReplacements))

---------------------------------------------------------------------------
(* The normalizers applied to one name: lines 40-42, 54 and 83 *)

Alphabet == Greek \cup {",", " ", "a"}

RECURSIVE StringsUpTo(_)
StringsUpTo(n) ==
    IF n = 0 THEN {<<>>}
    ELSE LET shorter == StringsUpTo(n - 1)
         IN shorter \cup {Append(cs, c) : cs \in shorter, c \in Alphabet}

AllNames == {NaN, None, PyInt(0)} \cup {Str(cs) : cs \in StringsUpTo(MaxNameLen)}

\* what a cell holds after DataFrame.to_excel and load_workbook: an empty
\* (NaN) cell is read back as None, every other value as it was written
ToCell(v) == IF IsNa(v) THEN None ELSE v

NoOut == [done |-> FALSE]

\* get_pubchem_info(name): line 40, then the name in the URL of line 42
CompoundQueryName(name) ==
    replace_special_characters_for_hyperlink(replace_special_characters(name))

\* line 54 passes the normalized name to a second frame, whose lines 40
\* and 42 normalize and encode it again
SubstanceQueryName(name) ==
    CompoundQueryName(replace_special_characters(name))

\* line 83: the label is computed from the name stored in column A
HyperlinkLabel(name) == replace_special_characters_for_hyperlink(ToCell(name))

ApplyNormalizers ==
    /\ pc = "fn"
    /\ ~out.done
    /\ out' = [done |-> TRUE,
               normalized |-> replace_special_characters(arg),
               twice |-> replace_special_characters(
                             replace_special_characters(arg)),
               encoded |-> replace_special_characters_for_hyperlink(arg),
               compound_query |-> CompoundQueryName(arg),
               substance_query |-> SubstanceQueryName(arg),
               label |-> HyperlinkLabel(arg)]
    /\ UNCHANGED <<mainvars, arg>>

Idle ==
    [exists |-> FALSE, data |-> <<>>, summary |-> <<>>, writes |-> 0]

InitNames ==
    /\ pc = "fn"
    /\ arg \in AllNames
    /\ out = NoOut
    /\ input_file = <<>>
    /\ readable = FALSE
    /\ sheet = <<>>
    /\ compound_names = <<>>
    /\ results = <<>>
    /\ compound_name = None
    /\ is_substance = FALSE
    /\ reqs = <<>>
    /\ result_df = <<>>
    /\ output_file = <<>>
    /\ disk = Idle
    /\ wb = Idle
    /\ log = <<>>

NextNames == ApplyNormalizers

SpecNames == InitNames /\ [][NextNames]_vars

---------------------------------------------------------------------------
(* os.path (posixpath) on a path given as its sequence of tokens; "/" is   *)
(* the separator and every other token stands for a string without one     *)

RECURSIVE LastSlash(_)
LastSlash(p) ==
    IF p = <<>> THEN 0
    ELSE IF p[Len(p)] = "/" THEN Len(p)
    ELSE LastSlash(SubSeq(p, 1, Len(p) - 1))

RECURSIVE RStripSlash(_)
RStripSlash(p) ==
    IF p # <<>> /\ p[Len(p)] = "/" THEN RStripSlash(SubSeq(p, 1, Len(p) - 1))
    ELSE p

\* os.path.dirname
Dirname(p) ==
    LET head == SubSeq(p, 1, LastSlash(p))
    IN IF head # <<>> /\ (\E i \in 1..Len(head) : head[i] # "/")
       THEN RStripSlash(head) ELSE head

\* os.path.basename
Basename(p) == SubSeq(p, LastSlash(p) + 1, Len(p))

\* os.path.join(a, b)
Join(a, b) ==
    IF b # <<>> /\ b[1] = "/" THEN b
    ELSE IF a = <<>> \/ a[Len(a)] = "/" THEN a \o b
    ELSE a \o <<"/">> \o b

\* line 128
OutputPath(p) == Join(Dirname(p), <<"processed_">> \o Basename(p))

\* line 129: os.makedirs(d, exist_ok=True) raises FileNotFoundError for the
\* empty path; the directory of a file that was just read exists
MakedirsRaises(d) == d = <<>>

---------------------------------------------------------------------------
(* What requests.get(url) can do: raise a transport error (ConnectionError, *)
(* Timeout, ...), or return a response with a status and a body            *)

Entry1 == [CID |-> PyInt(1), CanonicalSMILES |-> Str(<<"C">>)]
Entry2 == [CID |-> PyInt(2), CanonicalSMILES |-> Str(<<"C", "C">>)]

JsonBodies ==
    { [Fault |-> "x"],
      [PropertyTable |-> [Properties |-> <<>>]],
      [PropertyTable |-> [Properties |-> << [CID |-> PyInt(1)] >>]],
      [PropertyTable |-> [Properties |-> << [CanonicalSMILES |-> Str(<<"C">>)] >>]],
      [PropertyTable |-> [Properties |-> <<Entry1>>]],
      [PropertyTable |-> [Properties |-> <<Entry2, Entry1>>]] }

Responses ==
    {[type |-> "raise"]}
    \cup {[type |-> "response", status |-> s, json |-> FALSE] : s \in {404, 500}}
    \cup {[type |-> "response", status |-> 200, json |-> FALSE]}
    \cup {[type |-> "response", status |-> 200, json |-> TRUE, body |-> b] :
              b \in JsonBodies}

\* the property table the code reads is there: lines 48-49 raise nothing
WellFormed(r) ==
    /\ r.type = "response"
    /\ r.status = 200
    /\ r.json
    /\ "PropertyTable" \in DOMAIN r.body
    /\ "Properties" \in DOMAIN r.body.PropertyTable
    /\ Len(r.body.PropertyTable.Properties) >= 1
    /\ {"CID", "CanonicalSMILES"} \subseteq DOMAIN r.body.PropertyTable.Properties[1]

NotFound == <<None, None, "not found">>

\* line 50
StatusLabelSwapped(sub) == IF sub THEN "compound found" ELSE "substance"

StatusLabel(sub) == IF ~sub THEN "compound found" ELSE "substance"

\* lines 48-49 take Properties[-1]
PickedEntryLast(props) == props[Len(props)]

\* lines 48-49: Properties[0]
PickedEntry(props) == props[1]

\* line 52 without "and not is_substance"
FallsBackAlways(status, sub) == status = 404

\* line 52
FallsBack(status, sub) == status = 404 /\ ~sub

\* lines 44-62 of one frame of get_pubchem_info, for what requests.get did:
\* the value returned, or the recursive call of line 54; and what is printed
Frame(r, sub) ==
    IF r.type = "raise"
    THEN [do |-> "return", value |-> NotFound, print |-> "An error occurred"]
    ELSE IF r.status >= 400
    THEN IF FallsBack(r.status, sub)
         THEN [do |-> "recurse"]
         ELSE IF r.status = 404
         THEN [do |-> "return", value |-> NotFound,
               print |-> "Substance not found in PubChem"]
         ELSE [do |-> "return", value |-> NotFound,
               print |-> "HTTP error occurred"]
    ELSE IF WellFormed(r)
    THEN LET e == PickedEntry(r.body.PropertyTable.Properties)
         IN [do |-> "return",
             value |-> <<e.CID, e.CanonicalSMILES, StatusLabel(sub)>>,
             print |-> ""]
    ELSE [do |-> "return", value |-> NotFound, print |-> "An error occurred"]

---------------------------------------------------------------------------
(* The worksheet: row 1 is the header, data[i] is row i + 1 *)

\* line 124 storing the normalized name
ResultRowNormalized(compound, value) ==
    [name |-> replace_special_characters(compound), cid |-> value[1],
     smiles |-> value[2], status |-> value[3], hyperlink |-> Str(<<>>)]

\* line 124
ResultRow(compound, value) ==
    [name |-> compound, cid |-> value[1], smiles |-> value[2],
     status |-> value[3], hyperlink |-> Str(<<>>)]

\* line 132 and line 65: the table as load_workbook reads it back
ToExcel(df) ==
    [i \in 1..Len(df) |->
        [A |-> ToCell(df[i].name), B |-> ToCell(df[i].cid),
         C |-> ToCell(df[i].smiles), D |-> df[i].status,
         E |-> df[i].hyperlink, link |-> <<>>, fill |-> ""]]

RowEmpty(r) ==
    /\ r.A = None
    /\ r.B = None
    /\ r.C = None
    /\ r.D = ""
    /\ r.E = Str(<<>>)

\* worksheet.max_row: the last row holding a cell, the header at least
MaxRow(data) ==
    LET used == {i \in 1..Len(data) : ~RowEmpty(data[i])}
    IN 1 + (IF used = {} THEN 0 ELSE CHOOSE i \in used : \A j \in used : j <= i)

FillColor(status) ==
    CASE status = "compound found" -> "92D050"
      [] status = "substance" -> "FFC000"
      [] status = "not found" -> "FF3300"
      [] OTHER -> ""

QueryUrl == "https://pubchem.ncbi.nlm.nih.gov/#query="

\* lines 75-86 for one row
StyleRow(r) ==
    IF r.D \in {"compound found", "substance", "not found"}
    THEN IF r.D = "not found" /\ Truthy(r.A)
         THEN [r EXCEPT !.fill = FillColor(r.D),
                        !.link = <<QueryUrl>>
                                 \o replace_special_characters_for_hyperlink(r.A).s,
                        !.E = replace_special_characters_for_hyperlink(r.A)]
         ELSE [r EXCEPT !.fill = FillColor(r.D)]
    ELSE r

\* line 89 forgetting the header row
TotalCompoundsWithHeader(data) == MaxRow(data)

\* line 89
TotalCompounds(data) == MaxRow(data) - 1

\* lines 90-92
CountStatus(data, label) ==
    Cardinality({row \in 2..MaxRow(data) : data[row - 1].D = label})

\* lines 89-106
Summary(data) ==
    [start |-> MaxRow(data) + 2,
     total |-> TotalCompounds(data),
     found |-> CountStatus(data, "compound found"),
     substances |-> CountStatus(data, "substance"),
     not_found |-> CountStatus(data, "not found")]

---------------------------------------------------------------------------
(* main *)

RowNames == {NaN, PyInt(0), Str(<<ALPHA, ",", " ">>)}

Sheets == UNION {[1..n -> RowNames] : n \in 0..MaxRows}

InputPaths ==
    { <<"names.xlsx">>,
      <<"data", "/", "names.xlsx">>,
      <<"/", "names.xlsx">> }

\* a file left at the output path by an earlier run
OldFile == [exists |-> TRUE, data |-> <<>>, summary |-> <<>>, writes |-> 0]

Ev(e, row) == [ev |-> e, row |-> row]

Init ==
    /\ pc = "start"
    /\ input_file \in InputPaths
    /\ readable \in BOOLEAN
    /\ sheet \in (IF readable THEN Sheets ELSE {<<>>})
    /\ compound_names = <<>>
    /\ results = <<>>
    /\ compound_name = None
    /\ is_substance = FALSE
    /\ reqs = <<>>
    /\ result_df = <<>>
    /\ output_file = <<>>
    /\ disk \in {Idle, OldFile}
    /\ wb = Idle
    /\ log = <<>>
    /\ arg = None
    /\ out = NoOut

\* line 118 missing its return
AfterReadErrorFallsThrough == "resolve"

\* line 118
AfterReadError == "done"

\* lines 111-120
ReadInput ==
    /\ pc = "start"
    /\ IF readable
       THEN /\ compound_names' = sheet
            /\ pc' = "resolve"
            /\ log' = Append(log, Ev("read", 0))
       ELSE /\ compound_names' = compound_names
            /\ pc' = AfterReadError
            /\ log' = log \o <<Ev("read_error", 0),
                               Ev("print: Error reading the Excel file", 0)>>
    /\ UNCHANGED <<input_file, readable, sheet, results, compound_name,
                   is_substance, reqs, result_df, output_file, disk, wb,
                   arg, out>>

\* lines 122-123: the next row's call of get_pubchem_info
CallGetPubchemInfo ==
    /\ pc = "resolve"
    /\ Len(results) < Len(compound_names)
    /\ compound_name' = compound_names[Len(results) + 1]
    /\ is_substance' = FALSE
    /\ reqs' = <<>>
    /\ pc' = "lookup"
    /\ UNCHANGED <<input_file, readable, sheet, compound_names, results,
                   result_df, output_file, disk, wb, log, arg, out>>

\* lines 39-62, one frame: the request, then either the recursive call of
\* line 54 or the return to line 123 and the append of line 124; reqs keeps
\* the frame's url, what requests.get did and the message printed
GetPubchemInfo ==
    /\ pc = "lookup"
    /\ \E r \in Responses :
         LET row == Len(results) + 1
             name == replace_special_characters(compound_name)
             url == [kind |-> IF is_substance THEN "substance" ELSE "compound",
                     name |-> replace_special_characters_for_hyperlink(name)]
             f == Frame(r, is_substance)
         IN /\ reqs' = Append(reqs, [url |-> url, response |-> r,
                                     print |-> IF f.do = "recurse" THEN ""
                                               ELSE f.print])
            /\ IF f.do = "recurse"
               THEN /\ compound_name' = name
                    /\ is_substance' = TRUE
                    /\ pc' = "lookup"
                    /\ results' = results
                    /\ log' = Append(log, Ev("request", row))
               ELSE /\ compound_name' = compound_name
                    /\ is_substance' = is_substance
                    /\ pc' = "resolve"
                    /\ results' = Append(results,
                                         ResultRow(compound_names[row], f.value))
                    /\ log' = log \o <<Ev("request", row), Ev("return", row)>>
    /\ UNCHANGED <<input_file, readable, sheet, compound_names, result_df,
                   output_file, disk, wb, arg, out>>

\* lines 126-129: the loop is over, and with it the last lookup's frames;
\* os.makedirs is outside every try
PrepareOutput ==
    /\ pc = "resolve"
    /\ Len(results) = Len(compound_names)
    /\ reqs' = <<>>
    /\ result_df' = results
    /\ output_file' = OutputPath(input_file)
    /\ IF MakedirsRaises(Dirname(OutputPath(input_file)))
       THEN /\ pc' = "raised"
            /\ log' = Append(log, Ev("makedirs_raised", 0))
       ELSE /\ pc' = "persist"
            /\ log' = Append(log, Ev("makedirs", 0))
    /\ UNCHANGED <<input_file, readable, sheet, compound_names, results,
                   compound_name, is_substance, disk, wb, arg, out>>

\* line 132, and lines 135-136 when it raises (the file is then left as it was)
Persist ==
    /\ pc = "persist"
    /\ \E ok \in BOOLEAN :
         IF ok
         THEN /\ disk' = [exists |-> TRUE, data |-> ToExcel(result_df),
                          summary |-> <<>>, writes |-> disk.writes + 1]
              /\ pc' = "load"
              /\ log' = Append(log, Ev("persist", 0))
         ELSE /\ disk' = disk
              /\ pc' = "done"
              /\ log' = log \o <<Ev("persist_error", 0),
                                 Ev("print: Error saving the processed file", 0)>>
    /\ UNCHANGED <<input_file, readable, sheet, compound_names, results,
                   compound_name, is_substance, reqs, result_df, output_file,
                   wb, arg, out>>

\* lines 65-66, and lines 135-136 when load_workbook raises
LoadWorkbook ==
    /\ pc = "load"
    /\ \E ok \in BOOLEAN :
         IF ok
         THEN /\ wb' = [disk EXCEPT !.writes = 0]
              /\ pc' = "style"
              /\ log' = Append(log, Ev("load", 0))
         ELSE /\ wb' = wb
              /\ pc' = "done"
              /\ log' = log \o <<Ev("load_error", 0),
                                 Ev("print: Error saving the processed file", 0)>>
    /\ UNCHANGED <<input_file, readable, sheet, compound_names, results,
                   compound_name, is_substance, reqs, result_df, output_file,
                   disk, arg, out>>

\* lines 68-86: for row in range(2, worksheet.max_row + 1)
StyleRows ==
    /\ pc = "style"
    /\ wb' = [wb EXCEPT !.data =
                 [i \in 1..Len(wb.data) |->
                     IF i + 1 <= MaxRow(wb.data) THEN StyleRow(wb.data[i])
                     ELSE wb.data[i]]]
    /\ pc' = "summary"
    /\ log' = Append(log, Ev("style", 0))
    /\ UNCHANGED <<input_file, readable, sheet, compound_names, results,
                   compound_name, is_substance, reqs, result_df, output_file,
                   disk, arg, out>>

\* lines 88-106
WriteSummary ==
    /\ pc = "summary"
    /\ wb' = [wb EXCEPT !.summary = Append(wb.summary, Summary(wb.data))]
    /\ pc' = "save"
    /\ log' = Append(log, Ev("summary", 0))
    /\ UNCHANGED <<input_file, readable, sheet, compound_names, results,
                   compound_name, is_substance, reqs, result_df, output_file,
                   disk, arg, out>>

\* line 108, then line 134, or lines 135-136 when the save raises
SaveWorkbook ==
    /\ pc = "save"
    /\ \E ok \in BOOLEAN :
         IF ok
         THEN /\ disk' = [wb EXCEPT !.writes = disk.writes + 1]
              /\ log' = log \o <<Ev("save", 0),
                                 Ev("print: Processed file saved", 0)>>
         ELSE /\ disk' = disk
              /\ log' = log \o <<Ev("save_error", 0),
                                 Ev("print: Error saving the processed file", 0)>>
    /\ pc' = "done"
    /\ UNCHANGED <<input_file, readable, sheet, compound_names, results,
                   compound_name, is_substance, reqs, result_df, output_file,
                   wb, arg, out>>

Next ==
    \/ ReadInput
    \/ CallGetPubchemInfo
    \/ GetPubchemInfo
    \/ PrepareOutput
    \/ Persist
    \/ LoadWorkbook
    \/ StyleRows
    \/ WriteSummary
    \/ SaveWorkbook

Spec == Init /\ [][Next]_vars

---------------------------------------------------------------------------
(* Properties *)

Is404(r) == r.type = "response" /\ r.status = 404

\* a 200 response whose body is a property table with a first entry that
\* carries an identifier and a structure
GoodTable(r) ==
    /\ r.type = "response"
    /\ r.status = 200
    /\ r.json
    /\ r.body \in { [PropertyTable |-> [Properties |-> <<Entry1>>]],
                    [PropertyTable |-> [Properties |-> <<Entry2, Entry1>>]] }

FirstEntry(r) == r.body.PropertyTable.Properties[1]

Tuple(row) == <<row.cid, row.smiles, row.status>>

\* the last top-level call of get_pubchem_info has returned
Returned == pc # "lookup" /\ reqs # <<>>

LastResult == results[Len(results)]

InLog(e) == \E i \in 1..Len(log) : log[i].ev = e

\* C1: the table handed to the first persist step has one data row per input
\* name, in the input's order, each carrying its input name unchanged; while
\* the rows are resolved the results are a prefix of the input.
C1_RowsPreserved ==
    /\ Len(results) <= Len(sheet)
    /\ \A i \in 1..Len(results) : results[i].name = sheet[i]
    /\ (pc = "persist" \/ InLog("persist") \/ InLog("persist_error"))
         => /\ Len(result_df) = Len(sheet)
            /\ \A i \in 1..Len(sheet) : result_df[i].name = sheet[i]

C1_Witness ==
    /\ pc = "persist"
    /\ Len(sheet) = 2
    /\ sheet[1] = NaN
    /\ sheet[2] = Str(<<ALPHA, ",", " ">>)
    /\ result_df[1].status = "not found"
    /\ result_df[2].status = "compound found"

\* C2: in every summary written, total = found + substances + not found, and
\* total is the number of input rows.
C2_SummaryAddsUp ==
    \A k \in 1..Len(wb.summary) :
        LET s == wb.summary[k]
        IN /\ s.total = s.found + s.substances + s.not_found
           /\ s.total = Len(sheet)
           /\ s.found = Cardinality({i \in 1..Len(results) :
                                        results[i].status = "compound found"})
           /\ s.substances = Cardinality({i \in 1..Len(results) :
                                             results[i].status = "substance"})
           /\ s.not_found = Cardinality({i \in 1..Len(results) :
                                            results[i].status = "not found"})

C2_Witness ==
    /\ Len(wb.summary) = 1
    /\ wb.summary[1].total = 2
    /\ wb.summary[1].found = 1
    /\ wb.summary[1].not_found = 1

\* C3: a lookup issues at most two requests, the first of kind compound, a
\* second one only after a compound 404 and then of kind substance; after a
\* compound 404 exactly one substance request follows, whose well-formed
\* table gives status "substance" and whose every failure gives
\* (None, None, "not found"); "substance" is returned only after a
\* compound 404.
C3_SingleFallback ==
    /\ Len(reqs) <= 2
    /\ Len(reqs) >= 1 => reqs[1].url.kind = "compound"
    /\ Len(reqs) = 2 => Is404(reqs[1].response) /\ reqs[2].url.kind = "substance"
    /\ (pc = "lookup" /\ reqs # <<>>) => Len(reqs) = 1 /\ Is404(reqs[1].response)
    /\ Returned =>
         /\ Is404(reqs[1].response) =>
              /\ Len(reqs) = 2
              /\ IF GoodTable(reqs[2].response)
                 THEN Tuple(LastResult) =
                          <<FirstEntry(reqs[2].response).CID,
                            FirstEntry(reqs[2].response).CanonicalSMILES,
                            "substance">>
                 ELSE Tuple(LastResult) = NotFound
         /\ LastResult.status = "substance" => Is404(reqs[1].response)

C3_Witness ==
    /\ Returned
    /\ Len(reqs) = 2
    /\ Is404(reqs[1].response)
    /\ LastResult.status = "substance"

Ended == pc \in {"done", "raised"}

\* C5: whatever the lookups of the rows did, a run that read its input
\* resolves every row and reaches the persist step.
C5_RowFailuresNeverAbort ==
    (Ended /\ readable /\ \E i \in 1..Len(results) : results[i].status = "not found")
        => /\ Len(results) = Len(sheet)
           /\ (InLog("persist") \/ InLog("persist_error"))

Styled == wb.exists /\ InLog("style")

\* the cell of column A holds a name: it is not empty
NonEmptyName(v) == v # None /\ v # Str(<<>>)

\* C6: after the styling, a data row has a hyperlink if and only if its
\* status is "not found" and its compound name is not empty; the label is
\* then the encoded name and the target the query URL followed by it; every
\* other row's hyperlink cell is as it was written.
C6_HyperlinkIff ==
    Styled =>
        \A i \in 1..Len(wb.data) :
            LET r == wb.data[i]
                label == replace_special_characters_for_hyperlink(sheet[i])
            IN IF r.D = "not found" /\ NonEmptyName(r.A)
               THEN r.E = label /\ r.link = <<QueryUrl>> \o label.s
               ELSE r.E = Str(<<>>) /\ r.link = <<>>

\* C7: once the input was read, no failure of the output phase escapes main:
\* each is reported and ends the run; a run that saved wrote the file
\* "processed_" + the input's base name in the input's directory.
C7_OutputFailuresReported ==
    /\ pc # "raised"
    /\ (InLog("persist_error") \/ InLog("load_error") \/ InLog("save_error"))
         => pc = "done" /\ InLog("print: Error saving the processed file")
    /\ InLog("save") =>
         /\ Dirname(output_file) = Dirname(input_file)
         /\ Basename(output_file) = <<"processed_">> \o Basename(input_file)
         /\ disk.exists

NoGreek(cs) == \A i \in 1..Len(cs) : cs[i] \notin Greek

\* C8: normalize returns "" for a null or empty name, a string without any
\* of the four Greek letters for every name, the same string when applied
\* twice, and its argument when that is a string without Greek letters.
C8_Normalize ==
    out.done =>
        /\ out.normalized.kind = "str"
        /\ (IsNa(arg) \/ arg = Str(<<>>)) => out.normalized = Str(<<>>)
        /\ NoGreek(out.normalized.s)
        /\ out.twice = out.normalized
        /\ (arg.kind = "str" /\ NoGreek(arg.s)) => out.normalized = arg

C8_Witness ==
    /\ out.done
    /\ arg = Str(<<ALPHA, "a", ALPHA>>)
    /\ out.normalized = Str(<<"a", "l", "p", "h", "a", "a", "a", "l", "p", "h", "a">>)

\* C9: urlEncode leaves no comma and no space, equals the Greek
\* substitutions followed by the comma and space replacements, and gives
\* the same result on a name and on its normalization; so the compound
\* query, the substance query and the hyperlink label of a name agree.
C9_EncodedNameAgrees ==
    out.done =>
        /\ \A i \in 1..Len(out.encoded.s) : out.encoded.s[i] \notin {",", " "}
        /\ ~IsNa(arg) =>
             out.encoded.s =
                 StrReplace(StrReplace(out.normalized.s, ",", <<"%", "2", "c">>),
                            " ", <<"%", "2", "0">>)
        /\ out.compound_query = out.encoded
        /\ out.substance_query = out.encoded
        /\ out.label = out.encoded

C9_Witness ==
    /\ out.done
    /\ arg = Str(<<ALPHA, ",", " ">>)
    /\ out.label = Str(<<"a", "l", "p", "h", "a", "%", "2", "c", "%", "2", "0">>)
    /\ out.substance_query = out.label

\* the place of a step in main's order; 0 for a printed message
Phase(e) ==
    CASE e.ev \in {"read", "read_error"} -> 1
      [] e.ev \in {"request", "return"} -> 2
      [] e.ev \in {"makedirs", "makedirs_raised"} -> 3
      [] e.ev \in {"persist", "persist_error"} -> 4
      [] e.ev \in {"load", "load_error"} -> 5
      [] e.ev = "style" -> 6
      [] e.ev = "summary" -> 7
      [] e.ev \in {"save", "save_error"} -> 8
      [] OTHER -> 0

Steps == {i \in 1..Len(log) : Phase(log[i]) # 0}

\* C10: the steps of main occur in one order: the read, the rows one after
\* another, the first persist after the last row, styling and summary after
\* the first persist, the final save last, the summary once; a failed read is
\* followed by no request and leaves the output file alone.
C10_StepOrder ==
    /\ \A i, j \in Steps :
         i < j =>
            /\ Phase(log[i]) <= Phase(log[j])
            /\ Phase(log[i]) = Phase(log[j]) => Phase(log[i]) = 2
            /\ Phase(log[i]) = 2 /\ Phase(log[j]) = 2 =>
                 /\ log[i].row <= log[j].row
                 /\ log[i].ev = "return" => log[i].row < log[j].row
    /\ \A j \in Steps :
         /\ Phase(log[j]) > 1 => \E i \in 1..(j - 1) : log[i].ev = "read"
         /\ (log[j].ev = "request" /\ log[j].row > 1) =>
              \E i \in 1..(j - 1) : log[i] = Ev("return", log[j].row - 1)
         /\ Phase(log[j]) >= 4 =>
              \A r \in 1..Len(sheet) : \E i \in 1..(j - 1) : log[i] = Ev("return", r)
         /\ Phase(log[j]) >= 5 => \E i \in 1..(j - 1) : log[i].ev = "persist"
         /\ Phase(log[j]) = 8 => \E i \in 1..(j - 1) : log[i].ev = "summary"
    /\ Len(wb.summary) <= 1
    /\ InLog("save") => Len(disk.summary) = 1
    /\ ~readable =>
         /\ \A i \in 1..Len(log) : log[i].ev # "request"
         /\ disk \in {Idle, OldFile}

C10_Witness ==
    /\ pc = "done"
    /\ InLog("save")
    /\ Len(sheet) = 2
    /\ Cardinality({i \in 1..Len(log) : log[i].ev = "request"}) = 3

============================================================================
